---- MODULE Spec2Model ----
(***************************************************************************)
(* A model of src/main.py of overleaf-zotero-sync: the collection walker   *)
(* (_get_all_subcollections), the bibliography aggregator                  *)
(* (fetch_zotero_bib), the repository syncer (clone_or_update_repo,        *)
(* update_bib_and_push, main) and the OAuth handshake                      *)
(* (get_zotero_oauth_token).                                               *)
(***************************************************************************)
EXTENDS Integers, Sequences, FiniteSets, TLC

\* ------------------------------------------------------------------------
\* Bounds
\* ------------------------------------------------------------------------
\* number of collections the reference service holds
MaxNodes == 3
\* most item pages the service serves for one collection
MaxItemPages == 2
\* process invocations (runs of main) in a row
MaxRuns == 2
\* callback requests the browser side delivers to the loopback listener
MaxCallbacks == 2
\* the depth of nested calls the interpreter allows before it raises
\* RecursionError (sys.getrecursionlimit()), at the scale of the model: the
\* depth the deepest hierarchy of MaxNodes collections without a cycle needs
RecursionLimit == 3

\* ------------------------------------------------------------------------
\* The reference service: hierarchy, URLs, pages
\* ------------------------------------------------------------------------
Nodes == 1 .. MaxNodes

\* proj["zotero_collection_id"] is None: the whole library
NoColl == 0

Range(s) == {s[i] : i \in 1 .. Len(s)}

NoDup(s) == \A i, j \in 1 .. Len(s) : i # j => s[i] # s[j]

RECURSIVE SortedSeq(_)
SortedSeq(S) ==
    IF S = {} THEN <<>>
    ELSE LET m == CHOOSE x \in S : \A y \in S : x <= y
         IN <<m>> \o SortedSeq(S \ {m})

\* hierarchies: par[n] is the parent collection of n, 0 for a top-level one
Hierarchies == [Nodes -> Nodes \cup {NoColl}]

RECURSIVE Anc(_, _, _)
\* the k-th ancestor of n under par (NoColl once the top is passed)
Anc(par, n, k) ==
    IF k = 0 \/ n = NoColl THEN n ELSE Anc(par, par[n], k - 1)

\* a finite forest: no collection is its own ancestor
IsForest(par) == \A n \in Nodes : \A k \in 1 .. MaxNodes : Anc(par, n, k) # n

\* the strict descendants of r, read off the parent links
StrictDescendants(par, r) ==
    {n \in Nodes : \E k \in 1 .. MaxNodes : Anc(par, n, k) = r}

\* the direct children of pid, in the order the service lists them
Kids(par, pid) == SortedSeq({n \in Nodes : par[n] = pid})

NoUrl == [kind |-> "none", coll |-> NoColl, start |-> 0]

\* main.py:518  .../collections/{parent_id}/collections
CollectionsUrl(pid) == [kind |-> "collections", coll |-> pid, start |-> 0]

\* main.py:579-582  .../collections/{coll}/items/top or .../items/top
ItemsUrl(coll) == [kind |-> "items", coll |-> coll, start |-> 0]

\* the Link response header, a sequence of <url>; rel="..." parts
NextPart(u) == [rel |-> "next", url |-> u]
LastPart(u) == [rel |-> "last", url |-> u]
FirstPart(u) == [rel |-> "first", url |-> [u EXCEPT !.start = 0]]

\* the Link header of a page of the listing at url u that holds n elements
\* out of total: rel="next" and rel="last" while elements remain, rel="first"
\* on a later page
LinkHeader(u, n, total) ==
    (IF u.start > 0 THEN <<FirstPart(u)>> ELSE <<>>)
    \o (IF u.start + n < total
        THEN <<NextPart([u EXCEPT !.start = u.start + n]),
               LastPart([u EXCEPT !.start = total - 1])>>
        ELSE <<>>)

\* the wrong link: whichever part comes first
FirstLinkUrl(links) == IF links = <<>> THEN NoUrl ELSE links[1].url

\* pagination not followed
NoNextLink(links) == NoUrl

\* main.py:531-536 and 598-605: the url of the first part with rel == "next"
NextLinkUrl(links) ==
    IF \E i \in 1 .. Len(links) : links[i].rel = "next"
    THEN links[CHOOSE i \in 1 .. Len(links) :
                 /\ links[i].rel = "next"
                 /\ \A j \in 1 .. i - 1 : links[j].rel # "next"].url
    ELSE NoUrl

\* ------------------------------------------------------------------------
\* Page texts: sequences of characters, NL a newline, AT an "@", X any other
\* ------------------------------------------------------------------------
\* an empty response body, and one entry followed by a blank line
EmptyText == <<>>
OneEntry == <<"NL", "AT", "X", "NL", "NL">>
PageTexts == {EmptyText, OneEntry}

RECURSIVE Rstrip(_)
\* str.rstrip(): trailing whitespace removed
Rstrip(t) ==
    IF t # <<>> /\ t[Len(t)] = "NL" THEN Rstrip(SubSeq(t, 1, Len(t) - 1)) ELSE t

\* text.count("\n@")
CountEntries(t) ==
    Cardinality({i \in 1 .. Len(t) - 1 : t[i] = "NL" /\ t[i + 1] = "AT"})

\* the entries a body holds: each starts with one "@"
EntriesIn(t) == Cardinality({i \in 1 .. Len(t) : t[i] = "AT"})

RECURSIVE Join(_)
\* "".join(bib_parts)
Join(parts) == IF parts = <<>> THEN <<>> ELSE Head(parts) \o Join(Tail(parts))

\* ------------------------------------------------------------------------
\* State
\* ------------------------------------------------------------------------
VARIABLES
    \* the reference service and the target
    par,            \* the hierarchy of collections
    collection_id,  \* proj["zotero_collection_id"], NoColl for None
    \* fetch_zotero_bib and _get_all_subcollections
    fpc,            \* position in fetch_zotero_bib
    stack,          \* the call stack of _get_all_subcollections
    coll_ids, ci, next_url, bib_parts, total_entries, page_count,
    bib,            \* the value fetch_zotero_bib returns
    exc,            \* the exception in flight, "none" without one
    log,            \* history: every GET issued, with its outcome
    text,           \* resp.text of the items page received last
    served,         \* history: the entries the service has delivered
    \* main, clone_or_update_repo and update_bib_and_push
    now,            \* the wall clock read by datetime.now()
    run,            \* the number of this invocation of main
    mpc,            \* position in main
    local_dir,      \* proj["local_dir"] is set
    dirs,           \* the directories: LocalPath, and one temporary per run
    remote,         \* the head commit of the remote repository
    path, is_temp,  \* what clone_or_update_repo returned
    last_run,       \* proj["last_run"], 0 for None
    exit_code,      \* the status the process ended with, -1 while it runs
    ops,            \* history: what this run did, in order
    base,           \* history: references.bib as last committed when staged
    git_url,        \* proj["git_url"]
    auth_token,     \* proj["auth_token"]
    origin,         \* the URL of remote origin in each working copy's config
    urls,           \* history: the URL each clone, pull, push went to
    \* get_zotero_oauth_token
    opc,            \* position of the calling thread
    svc_token,      \* history: the request token the service issued
    resource_owner_key,  \* the request token as the caller holds it
    server,         \* the HTTPServer: its socket, its loop, its verifier
    shutdown_request,    \* server.shutdown() has been called
    delivered,      \* history: the callback requests handled, in order
    verifier,       \* the local variable verifier
    exchange,       \* history: the access-token request issued
    tokens,         \* what fetch_access_token returned
    credential,     \* the value get_zotero_oauth_token returned
    shutdowns,      \* history: the calls of server.shutdown()
    observed        \* history: server.verifier when the wait loop ended

runVars == <<now, run, mpc, local_dir, dirs, remote, path, is_temp, last_run,
             exit_code, ops, base, git_url, auth_token, origin, urls>>

oauthVars == <<opc, svc_token, resource_owner_key, server, shutdown_request,
               delivered, verifier, exchange, tokens, credential, shutdowns,
               observed>>

fetchVars == <<par, collection_id, fpc, stack, coll_ids, ci, next_url,
               bib_parts, total_entries, page_count, bib, exc, log, text,
               served>>

\* a file that does not exist / a value not yet produced
NoBib == [exists |-> FALSE, ts |-> 0, path |-> NoColl, colls |-> 0,
          entries |-> 0, body |-> <<>>]

\* ------------------------------------------------------------------------
\* _get_all_subcollections (main.py:512-543)
\* ------------------------------------------------------------------------
\* main.py:516-521: the locals of a fresh call
Frame(pid) ==
    [parent_id |-> pid, sub_ids |-> <<>>, next_url |-> CollectionsUrl(pid),
     i |-> 1, all_desc |-> <<>>]

Top == stack[Len(stack)]

\* the pages the service may answer for the listing request u: any non-empty
\* prefix of the children not yet listed (the empty page for no children)
ListingPages(u) ==
    LET kids == Kids(par, u.coll)
        rest == Len(kids) - u.start
        sizes == IF rest <= 0 THEN {0} ELSE 1 .. rest
    IN {[keys |-> SubSeq(kids, u.start + 1, u.start + n),
         links |-> LinkHeader(u, n, Len(kids))] : n \in sizes}

\* the child forgotten
ExtendWithoutChild(all_desc, cid, sub) == all_desc \o sub

\* main.py:541-542: all_desc.append(cid); all_desc.extend(<the recursive call>)
ExtendDesc(all_desc, cid, sub) == all_desc \o <<cid>> \o sub

\* the loop goes on after a failed request
RetryAfterFailure(pc) == pc

\* main.py:525 and 588: raise_for_status() raises and the function is left
AfterFailure(pc) == "raised"

\* the descendants alone
CollIdsWithoutParent(parent, desc) == desc

\* main.py:554: [parent] + _get_all_subcollections(cred, proj, parent)
CollIds(parent, desc) == <<parent>> \o desc

\* main.py:524-536: one listing page requested and received
WalkGetOk ==
    /\ fpc = "walk" /\ stack # <<>> /\ Top.next_url # NoUrl
    /\ \E page \in ListingPages(Top.next_url) :
         /\ stack' = [stack EXCEPT ![Len(stack)] =
                        [@ EXCEPT !.sub_ids = @ \o page.keys,
                                  !.next_url = NextLinkUrl(page.links)]]
         /\ log' = Append(log, [url |-> Top.next_url, status |-> "ok",
                                links |-> page.links])
    /\ UNCHANGED <<par, collection_id, fpc, coll_ids, ci, next_url, bib_parts,
                   total_entries, page_count, bib, exc>>
    /\ UNCHANGED <<text, served>>
    /\ UNCHANGED runVars
    /\ UNCHANGED oauthVars

\* main.py:524-525: the request fails, raise_for_status() raises
WalkGetFail ==
    /\ fpc = "walk" /\ stack # <<>> /\ Top.next_url # NoUrl
    /\ log' = Append(log, [url |-> Top.next_url, status |-> "error",
                           links |-> <<>>])
    /\ fpc' = AfterFailure(fpc)
    /\ exc' = "RequestException"
    /\ stack' = <<>>
    /\ UNCHANGED <<par, collection_id, coll_ids, ci, next_url, bib_parts,
                   total_entries, page_count, bib>>
    /\ UNCHANGED <<text, served>>
    /\ UNCHANGED runVars
    /\ UNCHANGED oauthVars

\* no nested call is allowed
TooDeepAtOnce(st) == Len(st) >= 1

\* the calls of _get_all_subcollections nested in one another have reached
\* the depth the interpreter allows
TooDeep(st) == Len(st) >= RecursionLimit

\* main.py:543: the recursive call cannot be made, RecursionError leaves
\* every call of the walker
WalkTooDeep ==
    /\ fpc = "walk" /\ stack # <<>> /\ Top.next_url = NoUrl
    /\ Top.i <= Len(Top.sub_ids)
    /\ TooDeep(stack)
    /\ fpc' = "raised"
    /\ exc' = "RecursionError"
    /\ stack' = <<>>
    /\ UNCHANGED <<par, collection_id, coll_ids, ci, next_url, bib_parts,
                   total_entries, page_count, bib, log, text, served>>
    /\ UNCHANGED runVars
    /\ UNCHANGED oauthVars

\* main.py:540-542: the loop over sub_ids reaches a child and calls itself
WalkRecurse ==
    /\ fpc = "walk" /\ stack # <<>> /\ Top.next_url = NoUrl
    /\ Top.i <= Len(Top.sub_ids)
    /\ ~TooDeep(stack)
    /\ stack' = Append(stack, Frame(Top.sub_ids[Top.i]))
    /\ UNCHANGED <<par, collection_id, fpc, coll_ids, ci, next_url, bib_parts,
                   total_entries, page_count, bib, exc, log, text, served>>
    /\ UNCHANGED runVars
    /\ UNCHANGED oauthVars

\* main.py:543 and 554: a call returns all_desc, to the call above it or to
\* fetch_zotero_bib, which builds coll_ids = [parent] + <the result>
WalkReturn ==
    /\ fpc = "walk" /\ stack # <<>> /\ Top.next_url = NoUrl
    /\ Top.i > Len(Top.sub_ids)
    /\ IF Len(stack) > 1
       THEN /\ stack' = [SubSeq(stack, 1, Len(stack) - 1) EXCEPT ![Len(stack) - 1] =
                           [@ EXCEPT !.all_desc = ExtendDesc(@, Top.parent_id, Top.all_desc),
                                     !.i = @ + 1]]
            /\ UNCHANGED <<fpc, coll_ids, ci, next_url>>
       ELSE /\ stack' = <<>>
            /\ coll_ids' = CollIds(collection_id, Top.all_desc)
            /\ ci' = 1
            /\ next_url' = ItemsUrl(collection_id)
            /\ fpc' = "items"
    /\ UNCHANGED <<par, collection_id, bib_parts, total_entries, page_count,
                   bib, exc, log, text, served>>
    /\ UNCHANGED runVars
    /\ UNCHANGED oauthVars

\* ------------------------------------------------------------------------
\* fetch_zotero_bib (main.py:546-625)
\* ------------------------------------------------------------------------
\* main.py:551-561: which collections to fetch
FetchBegin ==
    /\ fpc = "start"
    /\ IF collection_id # NoColl
       THEN /\ fpc' = "walk"
            /\ stack' = <<Frame(collection_id)>>
            /\ UNCHANGED <<coll_ids, ci, next_url>>
       ELSE /\ fpc' = "items"
            /\ coll_ids' = <<NoColl>>
            /\ ci' = 1
            /\ next_url' = ItemsUrl(NoColl)
            /\ UNCHANGED stack
    /\ bib_parts' = <<>>
    /\ total_entries' = 0
    /\ page_count' = 0
    /\ UNCHANGED <<par, collection_id, bib, exc, log, text, served>>
    /\ UNCHANGED runVars
    /\ UNCHANGED oauthVars

\* the pages the service may answer for the items request u: any text, and
\* a further page or not
ItemPages(u) ==
    {[text |-> t, links |-> LinkHeader(u, 1, u.start + 1 + more)] :
        t \in PageTexts,
        more \in IF u.start + 1 < MaxItemPages THEN {0, 1} ELSE {0}}

\* every page kept, an empty one too
PartsAlways(parts, t) == Append(parts, Rstrip(t) \o <<"NL">>)

\* main.py:590-595: the page's text kept, its entries counted
PartsAfter(parts, t) ==
    IF t # <<>> THEN Append(parts, Rstrip(t) \o <<"NL">>) ELSE parts

\* the running total replaced by the page's count
EntriesOverwrite(total, t) ==
    IF t # <<>> THEN CountEntries(t) ELSE total

\* main.py:593-594: total_entries += text.count("\n@")
EntriesAfter(total, t) ==
    IF t # <<>> THEN total + CountEntries(t) ELSE total

\* main.py:585-608: one items page requested and received; with no next link
\* the for loop moves to the next collection, and past the last one the
\* header is due
ItemsGetOk ==
    /\ fpc = "items" /\ ci <= Len(coll_ids) /\ next_url # NoUrl
    /\ \E page \in ItemPages(next_url) :
         LET nxt == NextLinkUrl(page.links) IN
         /\ bib_parts' = PartsAfter(bib_parts, page.text)
         /\ total_entries' = EntriesAfter(total_entries, page.text)
         /\ text' = page.text
         /\ served' = served + EntriesIn(page.text)
         /\ page_count' = page_count + 1
         /\ log' = Append(log, [url |-> next_url, status |-> "ok",
                                links |-> page.links])
         /\ IF nxt # NoUrl
            THEN /\ next_url' = nxt
                 /\ UNCHANGED <<ci, fpc>>
            ELSE /\ ci' = ci + 1
                 /\ next_url' = IF ci < Len(coll_ids)
                                THEN ItemsUrl(coll_ids[ci + 1]) ELSE NoUrl
                 /\ fpc' = IF ci < Len(coll_ids) THEN "items" ELSE "header"
    /\ UNCHANGED <<par, collection_id, stack, coll_ids, bib, exc>>
    /\ UNCHANGED runVars
    /\ UNCHANGED oauthVars

\* main.py:587-588: the request fails, raise_for_status() raises
ItemsGetFail ==
    /\ fpc = "items" /\ ci <= Len(coll_ids) /\ next_url # NoUrl
    /\ log' = Append(log, [url |-> next_url, status |-> "error",
                           links |-> <<>>])
    /\ fpc' = AfterFailure(fpc)
    /\ exc' = "RequestException"
    /\ UNCHANGED <<par, collection_id, stack, coll_ids, ci, next_url, bib_parts,
                   total_entries, page_count, bib>>
    /\ UNCHANGED <<text, served>>
    /\ UNCHANGED runVars
    /\ UNCHANGED oauthVars

\* main.py:611-620 and 625: info + "".join(bib_parts)
MakeBib(ts, cid, colls, total, parts) ==
    [exists |-> TRUE, ts |-> ts, path |-> cid, colls |-> Len(colls),
     entries |-> total, body |-> Join(parts)]

\* main.py:610-625: the header is built and the text returned
FetchHeader ==
    /\ fpc = "header"
    /\ bib' = MakeBib(now, collection_id, coll_ids, total_entries, bib_parts)
    /\ fpc' = "done"
    /\ UNCHANGED <<par, collection_id, stack, coll_ids, ci, next_url, bib_parts,
                   total_entries, page_count, exc, log, text, served>>
    /\ UNCHANGED runVars
    /\ UNCHANGED oauthVars

\* ------------------------------------------------------------------------
\* The repositories and directories
\* ------------------------------------------------------------------------
\* the directory proj["local_dir"] names; the temporary directory of run r
\* is directory r
LocalPath == 0
Paths == {LocalPath} \cup (1 .. MaxRuns)

\* a commit, as far as references.bib goes
NoCommit == [rev |-> 0, bib |-> NoBib]
FirstCommit == [rev |-> 1, bib |-> NoBib]

\* no directory at that path
AbsentDir == [exists |-> FALSE, git |-> FALSE, head |-> NoCommit,
              index |-> NoBib, file |-> NoBib, other |-> FALSE]

\* tempfile.mkdtemp(): a fresh empty directory
EmptyDir == [AbsentDir EXCEPT !.exists = TRUE]

\* a working copy checked out at commit c; other: some tracked file other
\* than references.bib carries uncommitted changes
WorkingCopy(c, other) ==
    [exists |-> TRUE, git |-> TRUE, head |-> c, index |-> c.bib,
     file |-> c.bib, other |-> other]

\* main.py:653  repo.is_dirty(): the index differs from HEAD, or a tracked
\* file of the working tree differs from the index
IsDirty(d) == d.index # d.head.bib \/ d.file # d.index \/ d.other

\* main.py:484-497: the directory clone_or_update_repo works in
PathFor(ld, r) == IF ld THEN LocalPath ELSE r

\* main.py:490: mkdtemp() when no local_dir is given
AfterMkdtemp(ds, ld, r) == IF ld THEN ds ELSE [ds EXCEPT ![r] = EmptyDir]

\* git pull: fast-forward to the remote head when it is ahead
Pulled(d, rem) ==
    IF rem.rev > d.head.rev
    THEN [d EXCEPT !.head = rem, !.index = rem.bib, !.file = rem.bib]
    ELSE d

\* a fast-forward must not overwrite a staged or unstaged change
CanPull(d, rem) ==
    rem.rev > d.head.rev => (d.index = d.head.bib /\ d.file = d.index)

\* what a run has not yet set
\* the repository URLs a project may be configured with: without and with
\* user-info before the host
GitUrls ==
    {[scheme |-> "https", netloc |-> <<"host">>, path |-> "/project"],
     [scheme |-> "https", netloc |-> <<"user", "@", "host">>, path |-> "/project"]}
GitTokens == {"token1", "token2"}
NoRemoteUrl == [scheme |-> "none", netloc |-> <<>>, path |-> ""]

RECURSIVE LastAfterAt(_)
\* main.py:495: netloc.split("@")[-1]
LastAfterAt(n) ==
    IF \E i \in 1 .. Len(n) : n[i] = "@" THEN LastAfterAt(Tail(n)) ELSE n

\* main.py:494-497: {scheme}://git:{token}@{domain_and_path}
AuthUrl(u, token) ==
    [scheme |-> u.scheme,
     netloc |-> <<"git", ":", token, "@">> \o LastAfterAt(u.netloc),
     path |-> u.path]

\* the project as configured, and every working copy as a clone by this
\* program with the present token left it
RemoteAsCloned ==
    /\ git_url = [scheme |-> "https", netloc |-> <<"user", "@", "host">>,
                  path |-> "/project"]
    /\ auth_token = "token1"
    /\ origin = [p \in Paths |->
                   IF dirs[p].git THEN AuthUrl(git_url, auth_token)
                   ELSE NoRemoteUrl]

RunIdle ==
    /\ urls = <<>>
    /\ path = LocalPath /\ is_temp = FALSE /\ exit_code = -1
    /\ ops = <<>> /\ base = NoBib

\* a clone whatever the directory holds
NeverWorkingCopy(d) == FALSE

\* main.py:499: (path / ".git").exists()
HasWorkingCopy(d) == d.git

\* ------------------------------------------------------------------------
\* main (main.py:678-752) and clone_or_update_repo (main.py:484-509)
\* ------------------------------------------------------------------------
\* main.py:707-711 with 499-509: the repository is cloned or pulled, and
\* update_bib_and_push is entered, up to its call of fetch_zotero_bib (645)
CloneOrUpdateOk ==
    /\ mpc = "start"
    /\ LET p == PathFor(local_dir, run)
           ds == AfterMkdtemp(dirs, local_dir, run)
       IN /\ IF HasWorkingCopy(ds[p])
             THEN /\ CanPull(ds[p], remote)
                  /\ dirs' = [ds EXCEPT ![p] = Pulled(ds[p], remote)]
                  /\ ops' = Append(ops, "pull")
             ELSE /\ dirs' = [ds EXCEPT ![p] = WorkingCopy(remote, FALSE)]
                  /\ ops' = (IF local_dir THEN ops ELSE Append(ops, "mkdtemp"))
                            \o <<"clone">>
          /\ path' = p
          /\ is_temp' = ~local_dir
    /\ mpc' = "sync"
    /\ fpc' = "start"
    /\ UNCHANGED <<now, run, local_dir, remote, last_run, exit_code, base>>
    /\ UNCHANGED <<par, collection_id, stack, coll_ids, ci, next_url, bib_parts,
                   total_entries, page_count, bib, exc, log, text, served>>
    /\ LET p == PathFor(local_dir, run)
           ds == AfterMkdtemp(dirs, local_dir, run)
           auth_url == AuthUrl(git_url, auth_token)
       IN IF HasWorkingCopy(ds[p])
          THEN /\ urls' = Append(urls, [op |-> "pull", url |-> origin[p]])
               /\ UNCHANGED origin
          ELSE /\ urls' = Append(urls, [op |-> "clone", url |-> auth_url])
               /\ origin' = [origin EXCEPT ![p] = auth_url]
    /\ UNCHANGED <<git_url, auth_token>>
    /\ UNCHANGED oauthVars

\* main.py:502 or 506 raises: the exception leaves clone_or_update_repo and
\* reaches the handler of main.py:749
CloneOrUpdateFail ==
    /\ mpc = "start"
    /\ LET p == PathFor(local_dir, run)
           ds == AfterMkdtemp(dirs, local_dir, run)
       IN /\ dirs' = ds
          /\ ops' = (IF local_dir THEN ops ELSE Append(ops, "mkdtemp"))
                    \o <<IF HasWorkingCopy(ds[p]) THEN "pull failed" ELSE "clone failed">>
    /\ exc' = "GitError"
    /\ mpc' = "propagate"
    /\ UNCHANGED <<now, run, local_dir, remote, path, is_temp, last_run,
                   exit_code, base>>
    /\ UNCHANGED <<par, collection_id, fpc, stack, coll_ids, ci, next_url,
                   bib_parts, total_entries, page_count, bib, log, text, served>>
    /\ LET p == PathFor(local_dir, run)
           ds == AfterMkdtemp(dirs, local_dir, run)
       IN urls' = Append(urls, IF HasWorkingCopy(ds[p])
                               THEN [op |-> "pull", url |-> origin[p]]
                               ELSE [op |-> "clone",
                                     url |-> AuthUrl(git_url, auth_token)])
    /\ UNCHANGED <<git_url, auth_token, origin>>
    /\ UNCHANGED oauthVars

\* main.py:647-659: the text is written and staged; a clean repository ends
\* update_bib_and_push, and main.py:715 sets last_run
Stage ==
    /\ mpc = "sync" /\ fpc = "done"
    /\ LET d == [dirs[path] EXCEPT !.file = bib, !.index = bib] IN
       /\ dirs' = [dirs EXCEPT ![path] = d]
       /\ base' = dirs[path].head.bib
       /\ IF IsDirty(d)
          THEN /\ mpc' = "commit"
               /\ ops' = ops \o <<"write", "add">>
               /\ UNCHANGED last_run
          ELSE /\ mpc' = "finally"
               /\ ops' = ops \o <<"write", "add", "noop">>
               /\ last_run' = now
    /\ fpc' = "idle"
    /\ UNCHANGED <<now, run, local_dir, remote, path, is_temp, exit_code>>
    /\ UNCHANGED <<par, collection_id, stack, coll_ids, ci, next_url, bib_parts,
                   total_entries, page_count, bib, exc, log, text, served>>
    /\ UNCHANGED <<git_url, auth_token, origin, urls>>
    /\ UNCHANGED oauthVars

\* main.py:655  repo.index.commit(...)
CommitOk ==
    /\ mpc = "commit"
    /\ dirs' = [dirs EXCEPT ![path].head =
                  [rev |-> @.rev + 1, bib |-> dirs[path].index]]
    /\ ops' = Append(ops, "commit")
    /\ mpc' = "push"
    /\ UNCHANGED <<now, run, local_dir, remote, path, is_temp, last_run,
                   exit_code, base>>
    /\ UNCHANGED fetchVars
    /\ UNCHANGED <<git_url, auth_token, origin, urls>>
    /\ UNCHANGED oauthVars

CommitFail ==
    /\ mpc = "commit"
    /\ ops' = Append(ops, "commit failed")
    /\ exc' = "GitError"
    /\ mpc' = "except"
    /\ UNCHANGED <<now, run, local_dir, dirs, remote, path, is_temp, last_run,
                   exit_code, base>>
    /\ UNCHANGED <<par, collection_id, fpc, stack, coll_ids, ci, next_url,
                   bib_parts, total_entries, page_count, bib, log, text, served>>
    /\ UNCHANGED <<git_url, auth_token, origin, urls>>
    /\ UNCHANGED oauthVars

\* main.py:656  repo.remotes.origin.push(), then main.py:715
PushOk ==
    /\ mpc = "push"
    /\ remote' = dirs[path].head
    /\ ops' = Append(ops, "push")
    /\ last_run' = now
    /\ mpc' = "finally"
    /\ UNCHANGED <<now, run, local_dir, dirs, path, is_temp, exit_code, base>>
    /\ UNCHANGED fetchVars
    /\ urls' = Append(urls, [op |-> "push", url |-> origin[path]])
    /\ UNCHANGED <<git_url, auth_token, origin>>
    /\ UNCHANGED oauthVars

PushFail ==
    /\ mpc = "push"
    /\ ops' = Append(ops, "push failed")
    /\ exc' = "GitError"
    /\ mpc' = "except"
    /\ UNCHANGED <<now, run, local_dir, dirs, remote, path, is_temp, last_run,
                   exit_code, base>>
    /\ UNCHANGED <<par, collection_id, fpc, stack, coll_ids, ci, next_url,
                   bib_parts, total_entries, page_count, bib, log, text, served>>
    /\ urls' = Append(urls, [op |-> "push", url |-> origin[path]])
    /\ UNCHANGED <<git_url, auth_token, origin>>
    /\ UNCHANGED oauthVars

\* main.py:645: fetch_zotero_bib raised, update_bib_and_push passes it on
FetchRaised ==
    /\ mpc = "sync" /\ fpc = "raised"
    /\ ops' = Append(ops, "fetch failed")
    /\ mpc' = "except"
    /\ fpc' = "idle"
    /\ UNCHANGED <<now, run, local_dir, dirs, remote, path, is_temp, last_run,
                   exit_code, base>>
    /\ UNCHANGED <<par, collection_id, stack, coll_ids, ci, next_url, bib_parts,
                   total_entries, page_count, bib, exc, log, text, served>>
    /\ UNCHANGED <<git_url, auth_token, origin, urls>>
    /\ UNCHANGED oauthVars

\* main.py:727-737: a requests.RequestException is reported and dropped, any
\* other exception is reported and raised again
AfterHandlers(e) == IF e = "RequestException" THEN "none" ELSE e

Except ==
    /\ mpc = "except"
    /\ ops' = Append(ops, "report")
    /\ exc' = AfterHandlers(exc)
    /\ mpc' = "finally"
    /\ UNCHANGED <<now, run, local_dir, dirs, remote, path, is_temp, last_run,
                   exit_code, base>>
    /\ UNCHANGED <<par, collection_id, fpc, stack, coll_ids, ci, next_url,
                   bib_parts, total_entries, page_count, bib, log, text, served>>
    /\ UNCHANGED <<git_url, auth_token, origin, urls>>
    /\ UNCHANGED oauthVars

\* the directory left in place
KeepDir(ds, p, temp) == ds

\* the directory removed whether temporary or not
CleanupAlways(ds, p, temp) == [ds EXCEPT ![p] = AbsentDir]

\* main.py:739-741: shutil.rmtree(path) when the directory is temporary
\* (the removal itself is taken to succeed)
Cleanup(ds, p, temp) == IF temp THEN [ds EXCEPT ![p] = AbsentDir] ELSE ds

\* main.py:738-741: the finally clause; an exception in flight goes on to
\* the handler of main.py:749, otherwise main.py:744 follows
Finally ==
    /\ mpc = "finally"
    /\ dirs' = Cleanup(dirs, path, is_temp)
    /\ ops' = IF dirs' # dirs THEN Append(ops, "rmtree") ELSE ops
    /\ mpc' = IF exc # "none" THEN "propagate" ELSE "save"
    /\ UNCHANGED <<now, run, local_dir, remote, path, is_temp, last_run,
                   exit_code, base>>
    /\ UNCHANGED fetchVars
    /\ origin' = IF is_temp THEN [origin EXCEPT ![path] = NoRemoteUrl] ELSE origin
    /\ UNCHANGED <<git_url, auth_token, urls>>
    /\ UNCHANGED oauthVars

\* main.py:749-752: the error is reported and the process exits with 1
OuterExcept ==
    /\ mpc = "propagate"
    /\ ops' = Append(ops, "report")
    /\ exit_code' = 1
    /\ mpc' = "exit"
    /\ UNCHANGED <<now, run, local_dir, dirs, remote, path, is_temp, last_run,
                   base>>
    /\ UNCHANGED fetchVars
    /\ UNCHANGED <<git_url, auth_token, origin, urls>>
    /\ UNCHANGED oauthVars

\* main.py:744: save_configs, and main returns: the process exits with 0
SaveAndReturn ==
    /\ mpc = "save"
    /\ exit_code' = 0
    /\ mpc' = "exit"
    /\ UNCHANGED <<now, run, local_dir, dirs, remote, path, is_temp, last_run,
                   ops, base>>
    /\ UNCHANGED fetchVars
    /\ UNCHANGED <<git_url, auth_token, origin, urls>>
    /\ UNCHANGED oauthVars

\* the tool is started again, later
NextRun ==
    /\ mpc = "exit" /\ run < MaxRuns
    /\ run' = run + 1
    /\ now' = now + 1
    /\ mpc' = "start"
    /\ path' = LocalPath /\ is_temp' = FALSE /\ exit_code' = -1
    /\ ops' = <<>> /\ base' = NoBib
    /\ fpc' = "idle" /\ stack' = <<>> /\ coll_ids' = <<>> /\ ci' = 1
    /\ next_url' = NoUrl /\ bib_parts' = <<>> /\ total_entries' = 0
    /\ page_count' = 0 /\ bib' = NoBib /\ exc' = "none" /\ log' = <<>>
    /\ text' = <<>> /\ served' = 0
    /\ UNCHANGED <<par, collection_id, local_dir, dirs, remote, last_run>>
    /\ urls' = <<>>
    /\ UNCHANGED <<git_url, auth_token, origin>>
    /\ UNCHANGED oauthVars

\* the texts handed to the syncer when it is run on its own
GivenBibs ==
    {MakeBib(1, NoColl, <<NoColl>>, 0, <<>>),
     MakeBib(1, NoColl, <<NoColl>>, 1, PartsAfter(<<>>, OneEntry))}

\* main.py:645: update_bib_and_push receives a text from fetch_zotero_bib;
\* here any text, as when the syncer is run with a given bibliography
GivenBib ==
    /\ mpc = "sync" /\ fpc = "start"
    /\ bib' \in GivenBibs
    /\ fpc' = "done"
    /\ UNCHANGED <<par, collection_id, stack, coll_ids, ci, next_url, bib_parts,
                   total_entries, page_count, exc, log, text, served>>
    /\ UNCHANGED runVars
    /\ UNCHANGED oauthVars

\* ------------------------------------------------------------------------
\* get_zotero_oauth_token (main.py:114-169)
\* ------------------------------------------------------------------------
Tokens == {"t1", "t2"}
Verifiers == {"v1", "v2"}
NoToken == "none"
NoVerifier == "none"

\* the callback requests: a path without a query string, a query without
\* oauth_verifier, and a query that carries a verifier
Queries ==
    {[query |-> FALSE, oauth_verifier |-> NoVerifier],
     [query |-> TRUE, oauth_verifier |-> NoVerifier]}
    \cup {[query |-> TRUE, oauth_verifier |-> v] : v \in Verifiers}

\* no HTTPServer yet
NoServer == [bound |-> FALSE, serving |-> FALSE, has_verifier |-> FALSE,
             verifier |-> NoVerifier]

\* main.py:139-140: the socket bound, serve_forever running in its thread
FreshServer == [NoServer EXCEPT !.bound = TRUE, !.serving = TRUE]

NoExchange == [issued |-> FALSE, verifier |-> NoVerifier, token |-> NoToken]

\* main.py:129-130: self.path.split("?", 1)[1] fails without a query string,
\* qs.get("oauth_verifier")[0] fails without the parameter
HandlerRaises(q) == ~q.query \/ q.oauth_verifier = NoVerifier

\* main.py:128-134  do_GET: the verifier is stored on the server; when the
\* handler raises, socketserver reports the error in the listener thread and
\* the server is left as it was
AfterGet(srv, q) ==
    IF HandlerRaises(q) THEN srv
    ELSE [srv EXCEPT !.has_verifier = TRUE, !.verifier = q.oauth_verifier]

\* the verifier left out of the session
ExchangeWithoutVerifier(v, t) == [issued |-> TRUE, verifier |-> NoVerifier, token |-> t]

\* main.py:154-161: the access-token request, signed with the request token
\* and the verifier
ExchangeRequest(v, t) == [issued |-> TRUE, verifier |-> v, token |-> t]

\* the keys of the access-token response, and an absent key
AccessFields == {"userID", "oauth_token", "oauth_token_secret", "username"}
Absent == "absent"
PyNone == "None"

\* the responses of the access-token endpoint: any of the keys may be absent
Responses ==
    {[f \in AccessFields |-> IF f \in S THEN f \o "-value" ELSE Absent] :
        S \in SUBSET AccessFields}

NoTokens == [received |-> FALSE, fields |-> [f \in AccessFields |-> Absent]]
NoCredential == [user_id |-> Absent, api_key |-> Absent, api_secret |-> Absent,
                 user_name |-> Absent]

\* dict.get(key, default)
Get(t, key, default) ==
    IF key \in DOMAIN t /\ t[key] # Absent THEN t[key] ELSE default

\* a or b
Or(a, b) == IF a \in {PyNone, ""} THEN b ELSE a

\* main.py:166-167: tokens["oauth_token"], tokens["oauth_token_secret"]
IndexRaises(t) == t["oauth_token"] = Absent \/ t["oauth_token_secret"] = Absent

\* main.py:164-169: the dictionary returned
Credential(t) ==
    [user_id |-> Or(Get(t, "userID", PyNone), Get(t, "user_id", PyNone)),
     api_key |-> t["oauth_token"],
     api_secret |-> t["oauth_token_secret"],
     user_name |-> Get(t, "username", "")]

\* the wait is left at once
WaitDoneAtOnce(srv) == TRUE

\* main.py:147: not hasattr(server, "verifier") is false
WaitDone(srv) == srv.has_verifier

\* main.py:117-125: the request token is obtained
RequestTokenOk ==
    /\ opc = "start"
    /\ \E t \in Tokens :
         /\ svc_token' = t
         /\ resource_owner_key' = t
    /\ opc' = "bind"
    /\ UNCHANGED <<server, shutdown_request, delivered, verifier, exchange, tokens, credential, shutdowns>>
    /\ UNCHANGED observed
    /\ UNCHANGED <<fetchVars, runVars>>

\* main.py:122: fetch_request_token raises
RequestTokenFail ==
    /\ opc = "start"
    /\ opc' = "raised"
    /\ UNCHANGED <<svc_token, resource_owner_key, server, shutdown_request,
                   delivered, verifier, exchange, tokens, credential, shutdowns>>
    /\ UNCHANGED observed
    /\ UNCHANGED <<fetchVars, runVars>>

\* main.py:139-140: the listener is bound and its thread started
BindOk ==
    /\ opc = "bind"
    /\ server' = FreshServer
    /\ opc' = "browser"
    /\ UNCHANGED <<svc_token, resource_owner_key, shutdown_request, delivered,
                   verifier, exchange, tokens, credential, shutdowns>>
    /\ UNCHANGED observed
    /\ UNCHANGED <<fetchVars, runVars>>

\* main.py:139: the port is taken, HTTPServer(...) raises
BindFail ==
    /\ opc = "bind"
    /\ opc' = "raised"
    /\ UNCHANGED <<svc_token, resource_owner_key, server, shutdown_request,
                   delivered, verifier, exchange, tokens, credential, shutdowns>>
    /\ UNCHANGED observed
    /\ UNCHANGED <<fetchVars, runVars>>

\* main.py:142-146: webbrowser.open, its result not looked at
OpenBrowser ==
    /\ opc = "browser"
    /\ opc' = "wait"
    /\ UNCHANGED <<svc_token, resource_owner_key, server, shutdown_request,
                   delivered, verifier, exchange, tokens, credential, shutdowns>>
    /\ UNCHANGED observed
    /\ UNCHANGED <<fetchVars, runVars>>

\* the listener thread handles one callback request (main.py:128-134)
HandleCallback ==
    /\ server.serving
    /\ Len(delivered) < MaxCallbacks
    /\ \E q \in Queries :
         /\ delivered' = Append(delivered, q)
         /\ server' = AfterGet(server, q)
    /\ UNCHANGED <<opc, svc_token, resource_owner_key, shutdown_request,
                   verifier, exchange, tokens, credential, shutdowns>>
    /\ UNCHANGED observed
    /\ UNCHANGED <<fetchVars, runVars>>

\* main.py:147-148: the loop ends once the server has a verifier; until then
\* the thread sleeps and looks again
WaitExit ==
    /\ opc = "wait"
    /\ WaitDone(server)
    /\ opc' = "shutdown"
    /\ UNCHANGED <<svc_token, resource_owner_key, server, shutdown_request,
                   delivered, verifier, exchange, tokens, credential, shutdowns>>
    /\ observed' = server.verifier
    /\ UNCHANGED <<fetchVars, runVars>>

\* main.py:148: KeyboardInterrupt during time.sleep leaves the function
Interrupt ==
    /\ opc = "wait"
    /\ opc' = "raised"
    /\ UNCHANGED <<svc_token, resource_owner_key, server, shutdown_request,
                   delivered, verifier, exchange, tokens, credential, shutdowns>>
    /\ UNCHANGED observed
    /\ UNCHANGED <<fetchVars, runVars>>

\* main.py:150: server.shutdown() asks the loop to stop and waits for it
ShutdownCall ==
    /\ opc = "shutdown"
    /\ shutdown_request' = TRUE
    /\ shutdowns' = shutdowns + 1
    /\ opc' = "shutting"
    /\ UNCHANGED <<svc_token, resource_owner_key, server, delivered, verifier,
                   exchange, tokens, credential>>
    /\ UNCHANGED observed
    /\ UNCHANGED <<fetchVars, runVars>>

\* serve_forever sees the request and leaves its loop; the socket stays open
ListenerStop ==
    /\ shutdown_request
    /\ server.serving
    /\ server' = [server EXCEPT !.serving = FALSE]
    /\ UNCHANGED <<opc, svc_token, resource_owner_key, shutdown_request,
                   delivered, verifier, exchange, tokens, credential, shutdowns>>
    /\ UNCHANGED observed
    /\ UNCHANGED <<fetchVars, runVars>>

\* main.py:150-151: shutdown() returns, the verifier is read
ReadVerifier ==
    /\ opc = "shutting"
    /\ ~server.serving
    /\ verifier' = server.verifier
    /\ opc' = "exchange"
    /\ UNCHANGED <<svc_token, resource_owner_key, server, shutdown_request,
                   delivered, exchange, tokens, credential, shutdowns>>
    /\ UNCHANGED observed
    /\ UNCHANGED <<fetchVars, runVars>>

\* main.py:153-169: the access token is fetched: the service answers with
\* t, the keys the return statement indexes are there, and the credential is
\* returned; nothing closes the socket, it goes when the server object is
\* finalised, at the return or later
ExchangeOk ==
    /\ opc = "exchange"
    /\ exchange' = ExchangeRequest(verifier, resource_owner_key)
    /\ \E t \in Responses :
         /\ ~IndexRaises(t)
         /\ tokens' = [received |-> TRUE, fields |-> t]
         /\ credential' = Credential(t)
    /\ opc' = "returned"
    /\ \E b \in BOOLEAN : server' = [server EXCEPT !.bound = b]
    /\ UNCHANGED <<svc_token, resource_owner_key, shutdown_request, delivered,
                   verifier, shutdowns>>
    /\ UNCHANGED observed
    /\ UNCHANGED <<fetchVars, runVars>>

\* main.py:161-167: the service answers with t, which lacks oauth_token or
\* oauth_token_secret: tokens[...] raises KeyError (or fetch_access_token
\* has raised already for the token it misses)
ExchangeKeyError ==
    /\ opc = "exchange"
    /\ exchange' = ExchangeRequest(verifier, resource_owner_key)
    /\ \E t \in Responses :
         /\ IndexRaises(t)
         /\ tokens' = [received |-> TRUE, fields |-> t]
    /\ opc' = "raised"
    /\ UNCHANGED <<svc_token, resource_owner_key, server, shutdown_request,
                   delivered, verifier, credential, shutdowns>>
    /\ UNCHANGED observed
    /\ UNCHANGED <<fetchVars, runVars>>

\* main.py:161: fetch_access_token raises
ExchangeFail ==
    /\ opc = "exchange"
    /\ exchange' = ExchangeRequest(verifier, resource_owner_key)
    /\ opc' = "raised"
    /\ UNCHANGED <<svc_token, resource_owner_key, server, shutdown_request,
                   delivered, verifier, tokens, credential, shutdowns>>
    /\ UNCHANGED observed
    /\ UNCHANGED <<fetchVars, runVars>>

OAuthIdle ==
    /\ svc_token = NoToken /\ resource_owner_key = NoToken
    /\ server = NoServer /\ shutdown_request = FALSE
    /\ delivered = <<>> /\ verifier = NoVerifier /\ exchange = NoExchange
    /\ tokens = NoTokens /\ credential = NoCredential /\ shutdowns = 0
    /\ observed = NoVerifier

\* ------------------------------------------------------------------------
\* Specifications
\* ------------------------------------------------------------------------
vars == <<fetchVars, runVars, oauthVars>>

FetchIdle ==
    /\ stack = <<>> /\ coll_ids = <<>> /\ ci = 1 /\ next_url = NoUrl
    /\ bib_parts = <<>> /\ total_entries = 0 /\ page_count = 0
    /\ bib = NoBib /\ exc = "none" /\ log = <<>>
    /\ text = <<>> /\ served = 0

\* the hierarchies the runs of main are checked against: no collection
\* nested, and collection 2 nested in collection 1
RunHierarchies ==
    {[n \in Nodes |-> NoColl], [n \in Nodes |-> IF n = 2 THEN 1 ELSE NoColl]}

\* a references.bib that an earlier run generated from a library without
\* entries
OldBib(cid) == MakeBib(0, cid, <<cid>>, 0, <<>>)

\* runs of main: the project is configured with or without a local_dir, with
\* or without a root collection; a local_dir may hold no working copy yet, one
\* that is behind the remote, an up-to-date one, or one with local edits
InitRun ==
    /\ par \in RunHierarchies
    /\ collection_id \in {NoColl, 1}
    /\ fpc = "idle"
    /\ FetchIdle
    /\ now = 1 /\ run = 1 /\ mpc = "start"
    /\ local_dir \in BOOLEAN
    /\ remote \in {FirstCommit, [rev |-> 1, bib |-> OldBib(collection_id)]}
    /\ \E d \in IF local_dir
                THEN {AbsentDir, WorkingCopy(NoCommit, FALSE),
                      WorkingCopy(remote, FALSE), WorkingCopy(remote, TRUE)}
                ELSE {AbsentDir} :
         dirs = [p \in Paths |-> IF p = LocalPath THEN d ELSE AbsentDir]
    /\ last_run = 0
    /\ RunIdle
    /\ opc = "idle"
    /\ OAuthIdle

Init == InitRun /\ RemoteAsCloned

\* the same runs, for any configured URL and token, over a working copy
\* whose origin is the URL built from the token as it is now, or from the
\* token as it was before it was replaced, or the repository URL as the
\* user cloned it by hand
InitRemote ==
    /\ InitRun
    /\ git_url \in GitUrls
    /\ auth_token \in GitTokens
    /\ \E u \in {AuthUrl(git_url, t) : t \in GitTokens} \cup {git_url} :
         origin = [p \in Paths |-> IF dirs[p].git THEN u ELSE NoRemoteUrl]

Next ==
    \/ CloneOrUpdateOk \/ CloneOrUpdateFail
    \/ FetchBegin \/ WalkGetOk \/ WalkGetFail \/ WalkRecurse \/ WalkReturn
    \/ ItemsGetOk \/ ItemsGetFail \/ FetchHeader
    \/ FetchRaised \/ Stage \/ CommitOk \/ CommitFail \/ PushOk \/ PushFail
    \/ Except \/ Finally \/ OuterExcept \/ SaveAndReturn \/ NextRun

Spec == Init /\ [][Next]_vars

\* the Repository Syncer on its own: main with the text given
NextSyncer ==
    \/ CloneOrUpdateOk \/ CloneOrUpdateFail \/ GivenBib
    \/ Stage \/ CommitOk \/ CommitFail \/ PushOk \/ PushFail
    \/ Except \/ Finally \/ OuterExcept \/ SaveAndReturn \/ NextRun

SpecSyncer == Init /\ [][NextSyncer]_vars

\* the Repository Syncer over any stored origin
SpecRemote == InitRemote /\ [][NextSyncer]_vars

\* one call of fetch_zotero_bib against any forest of collections
InitFetch ==
    /\ par \in {h \in Hierarchies : IsForest(h)}
    /\ collection_id \in Nodes \cup {NoColl}
    /\ fpc = "start"
    /\ FetchIdle
    /\ now = 1 /\ run = 1 /\ mpc = "sync"
    /\ local_dir = FALSE
    /\ remote = FirstCommit
    /\ dirs = [p \in Paths |-> AbsentDir]
    /\ last_run = 0
    /\ RunIdle
    /\ RemoteAsCloned
    /\ opc = "idle"
    /\ OAuthIdle

NextFetch ==
    \/ FetchBegin \/ WalkGetOk \/ WalkGetFail \/ WalkRecurse \/ WalkReturn
    \/ ItemsGetOk \/ ItemsGetFail \/ FetchHeader

SpecFetch == InitFetch /\ [][NextFetch]_vars

\* the parent relations the service may report, those with a cycle
\* included, as far as a walk from collection 1 can tell them apart: a
\* collection the walk cannot reach is left without a parent
WalkHierarchies ==
    {h \in Hierarchies :
        \A n \in Nodes \ ({1} \cup StrictDescendants(h, 1)) : h[n] = NoColl}

\* one call of the walker, from collection 1
InitWalk ==
    /\ par \in WalkHierarchies
    /\ collection_id = 1
    /\ fpc = "start"
    /\ FetchIdle
    /\ now = 1 /\ run = 1 /\ mpc = "sync"
    /\ local_dir = FALSE
    /\ remote = FirstCommit
    /\ dirs = [p \in Paths |-> AbsentDir]
    /\ last_run = 0
    /\ RunIdle
    /\ RemoteAsCloned
    /\ opc = "idle"
    /\ OAuthIdle

NextWalk ==
    \/ FetchBegin \/ WalkGetOk \/ WalkGetFail \/ WalkRecurse \/ WalkReturn
    \/ WalkTooDeep

SpecWalk == InitWalk /\ [][NextWalk]_vars

\* the walker left to run: the process keeps executing it
FairSpecWalk == SpecWalk /\ WF_vars(NextWalk)

\* one handshake: get_zotero_oauth_token called once
InitOAuth ==
    /\ opc = "start"
    /\ OAuthIdle
    /\ par = [n \in Nodes |-> NoColl]
    /\ collection_id = NoColl
    /\ fpc = "idle"
    /\ FetchIdle
    /\ now = 1 /\ run = 1 /\ mpc = "credentials"
    /\ local_dir = FALSE
    /\ remote = FirstCommit
    /\ dirs = [p \in Paths |-> AbsentDir]
    /\ last_run = 0
    /\ RunIdle
    /\ RemoteAsCloned

\* the steps of the calling thread that nothing outside it holds up
CallerStep ==
    \/ OpenBrowser \/ WaitExit \/ ShutdownCall \/ ReadVerifier
    \/ ExchangeOk \/ ExchangeKeyError \/ ExchangeFail

NextOAuth ==
    \/ RequestTokenOk \/ RequestTokenFail \/ BindOk \/ BindFail
    \/ OpenBrowser \/ HandleCallback \/ WaitExit \/ Interrupt
    \/ ShutdownCall \/ ListenerStop \/ ReadVerifier
    \/ ExchangeOk \/ ExchangeKeyError \/ ExchangeFail

SpecOAuth == InitOAuth /\ [][NextOAuth]_vars

\* the handshake left to run: the process is not interrupted, and both
\* threads keep being scheduled; whether a callback arrives is up to the
\* browser side
NextOAuthRun ==
    \/ RequestTokenOk \/ RequestTokenFail \/ BindOk \/ BindFail
    \/ OpenBrowser \/ HandleCallback \/ WaitExit
    \/ ShutdownCall \/ ListenerStop \/ ReadVerifier
    \/ ExchangeOk \/ ExchangeKeyError \/ ExchangeFail

FairSpecOAuth ==
    /\ InitOAuth
    /\ [][NextOAuthRun]_vars
    /\ WF_vars(CallerStep)
    /\ WF_vars(ListenerStop)

\* ------------------------------------------------------------------------
\* Claims about the walker and the aggregator (SpecFetch)
\* ------------------------------------------------------------------------
\* the walker has returned to fetch_zotero_bib
WalkerReturned == collection_id # NoColl /\ coll_ids # <<>>

\* C1: for every forest of collections and every split of the child listings
\* into pages, the list _get_all_subcollections(root) returns holds every
\* strict descendant of root exactly once, and nothing else (not root, no
\* collection outside root's subtree).
C1_WalkerReturnsDescendants ==
    WalkerReturned =>
        LET r == Tail(coll_ids)
        IN /\ NoDup(r)
           /\ Range(r) = StrictDescendants(par, collection_id)

\* the walker has returned two or more descendants of a root whose child
\* listing came in more than one page
C1_Witness ==
    /\ WalkerReturned
    /\ Len(coll_ids) >= 3
    /\ \E i \in 1 .. Len(log) :
         /\ log[i].url.kind = "collections"
         /\ log[i].url.coll = collection_id
         /\ log[i].url.start > 0

\* the next link the service put in a Link header, NoUrl without one
ServiceNext(links) ==
    IF \E p \in Range(links) : p.rel = "next"
    THEN (CHOOSE p \in Range(links) : p.rel = "next").url
    ELSE NoUrl

IsItems(e) == e.url.kind = "items"
ItemLog == SelectSeq(log, IsItems)

\* the requests of the log il issued for collection c
ItemRequests(il, c) == {i \in 1 .. Len(il) : il[i].url.coll = c}

\* fetch_zotero_bib is through with the items of coll_ids[k]
ItemsFinished(k) ==
    /\ k \in 1 .. Len(coll_ids)
    /\ fpc \in {"items", "header", "done"}
    /\ k < ci

\* C2: the item requests follow the pagination: a request goes to the next
\* link of the page before it when that page has one, and otherwise opens a
\* collection not requested before, at its first page; once a collection is
\* finished its last page is the one without a next link, and the number of
\* requests issued for it is its number of pages.
C2_OneRequestPerPage ==
    LET il == ItemLog IN
    /\ \A i \in 1 .. Len(il) :
         IF i > 1 /\ ServiceNext(il[i - 1].links) # NoUrl
         THEN il[i].url = ServiceNext(il[i - 1].links)
         ELSE /\ il[i].url.start = 0
              /\ \A j \in 1 .. i - 1 : il[j].url.coll # il[i].url.coll
    /\ \A k \in 1 .. Len(coll_ids) :
         ItemsFinished(k) =>
            LET reqs == ItemRequests(il, coll_ids[k]) IN
            \E i \in reqs :
               /\ il[i].status = "ok"
               /\ ServiceNext(il[i].links) = NoUrl
               /\ \A j \in reqs : j <= i
               /\ Cardinality(reqs) = il[i].url.start + 1

\* a fetch of two or more collections is complete and one of them had a
\* second page
C2_Witness ==
    /\ fpc = "done"
    /\ Len(coll_ids) >= 2
    /\ \E i \in 1 .. Len(ItemLog) : ItemLog[i].url.start > 0

\* ------------------------------------------------------------------------
\* Claims about a run of main (Spec, SpecSyncer)
\* ------------------------------------------------------------------------
Did(op) == op \in Range(ops)

\* what a references.bib holds of the reference service: everything but
\* the time it was generated
Content(b) == [b EXCEPT !.ts = 0]

\* C3: a sync run commits or pushes only when the content obtained from the
\* reference service differs from the references.bib last committed; a run
\* over an unchanged library is a no-op.
C3_CommitOnlyWhenContentChanged ==
    (Did("commit") \/ Did("push")) => Content(bib) # Content(base)

\* C4: once the given text is written and staged, a commit (and then a push)
\* follows exactly when the staged references.bib differs from the one last
\* committed; so a second run with the text the first run pushed is a no-op.
C4_CommitIffStagedDiffers ==
    Did("add") => (~Did("noop") <=> bib # base)

\* C5: when commit or push fails in a run that works in a temporary
\* directory, the directory is gone once the error has left the sync step
\* (the try statement of main) for the caller.
C5_CleanupBeforePropagation ==
    (/\ mpc \in {"propagate", "exit"}
     /\ is_temp
     /\ (Did("commit failed") \/ Did("push failed")))
        => ~dirs[path].exists

\* a push failed in a temporary working copy and the error is on its way out
C5_Witness ==
    /\ mpc = "propagate"
    /\ is_temp
    /\ Did("push failed")
    /\ Did("rmtree")

\* C6: the temporary directory a run created is deleted by the time the run
\* ends, on every exit path, a failed clone included.
C6_TempDirDeletedAtExit ==
    (mpc = "exit" /\ Did("mkdtemp")) => ~dirs[run].exists

\* C10: when a request to the reference service fails, the run writes,
\* commits and pushes nothing, the error is reported, and the process exits
\* with a non-zero status.
C10_FetchFailureExitsNonZero ==
    (mpc = "exit" /\ Did("fetch failed")) =>
        /\ ~Did("write") /\ ~Did("add") /\ ~Did("commit") /\ ~Did("push")
        /\ Did("report")
        /\ exit_code # 0

\* ------------------------------------------------------------------------
\* Claims about the handshake (SpecOAuth, FairSpecOAuth)
\* ------------------------------------------------------------------------
CarriesVerifier(q) == q.query /\ q.oauth_verifier # NoVerifier

\* the callbacks handled so far that carried a verifier
Captured == SelectSeq(delivered, CarriesVerifier)

\* the calling thread waits, and the only callbacks handled so far carried
\* no oauth_verifier
BadCallbackSeen ==
    /\ opc = "wait"
    /\ delivered # <<>>
    /\ Captured = <<>>

\* C7: once the listener has received a callback request that carries no
\* oauth_verifier, get_zotero_oauth_token ends with an error: the calling
\* thread does not stay in its wait loop.
C7_BadCallbackEndsWithError == BadCallbackSeen ~> (opc = "raised")

\* the access-token request is right: issued after a verifier was captured,
\* with the verifier of the (last) callback that carried one and with the
\* request token the service issued in step 1
ExchangeIsRight ==
    exchange.issued =>
        /\ Captured # <<>>
        /\ exchange.verifier = Captured[Len(Captured)].oauth_verifier
        /\ exchange.token = svc_token

\* C8: the access-token exchange is issued only after the listener captured
\* a verifier, with exactly that verifier and the request token of step 1;
\* and once a callback with a verifier has been handled, the exchange is
\* eventually issued.
C8_ExchangeUsesCapturedVerifier ==
    /\ []ExchangeIsRight
    /\ (Captured # <<>>) ~> exchange.issued

\* the exchange was issued after two callbacks, the first one without a
\* verifier
C8_Witness ==
    /\ exchange.issued
    /\ Len(delivered) >= 2
    /\ ~CarriesVerifier(delivered[1])
    /\ exchange.verifier \in Verifiers

\* C9: whenever get_zotero_oauth_token has returned or raised after the
\* listener was bound, the listener is torn down and the port released.
C9_ListenerReleasedOnExit ==
    (opc \in {"returned", "raised"} /\ server # NoServer)
        => (~server.serving /\ ~server.bound)

\* ------------------------------------------------------------------------
\* Claims about last_run (Spec)
\* ------------------------------------------------------------------------
\* the run got as far as calling update_bib_and_push
ReachedSync == Did("clone") \/ Did("pull")

\* C11: when a run that reached the synchronization step is over, whether
\* update_bib_and_push succeeded or failed, last_run holds the time of that
\* run.
C11_LastRunUpdatedAfterAttempt ==
    (mpc = "exit" /\ ReachedSync) => last_run = now

\* ------------------------------------------------------------------------
\* Claims about the header and the collection set (SpecFetch)
\* ------------------------------------------------------------------------
\* the collections an items request was issued for
Visited == LET il == ItemLog IN {il[i].url.coll : i \in 1 .. Len(il)}

\* C12: the header of the text fetch_zotero_bib returns gives as
\* "Collections fetched" the number of collections visited and as "Total
\* entries" the sum of the entries of every page of every visited
\* collection; a collection without entries adds nothing to the total and
\* still counts as a collection.
C12_HeaderCounts ==
    fpc = "done" =>
        /\ bib.colls = Cardinality(Visited)
        /\ bib.entries = served

\* three collections were fetched and the service delivered two entries in
\* all, so that one collection at least had none: the header says 3 and 2
C12_Witness ==
    /\ fpc = "done"
    /\ Cardinality(Visited) = 3 /\ served = 2
    /\ bib.colls = 3 /\ bib.entries = 2

\* the collections the target stands for: the root and its strict
\* descendants, or the whole library
FetchSet ==
    IF collection_id # NoColl
    THEN {collection_id} \cup StrictDescendants(par, collection_id)
    ELSE {NoColl}

\* the requests of the log il for the first items page of collection c
FirstPageRequests(il, c) ==
    {i \in 1 .. Len(il) : il[i].url.coll = c /\ il[i].url.start = 0}

\* C13: the collections whose items fetch_zotero_bib fetches are the root
\* with all its strict descendants when the target names a root, and the
\* whole library alone, without any listing request, when it names none;
\* no collection is in the traversal list twice, and the items of each are
\* fetched once.
C13_CollectionSet ==
    LET il == ItemLog
        visited == Visited
        fetch_set == FetchSet
    IN
    /\ visited \subseteq fetch_set
    /\ \A c \in visited : Cardinality(FirstPageRequests(il, c)) = 1
    /\ collection_id = NoColl =>
          \A i \in 1 .. Len(log) : log[i].url.kind # "collections"
    /\ fpc \in {"items", "header", "done"} =>
          /\ Range(coll_ids) = fetch_set
          /\ NoDup(coll_ids)
          /\ collection_id = NoColl => coll_ids = <<NoColl>>
    /\ fpc \in {"header", "done"} => visited = fetch_set

\* the fetch of a root, a child and a grandchild is complete
C13_Witness ==
    /\ fpc = "done"
    /\ collection_id # NoColl
    /\ Cardinality(Visited) = 3
    /\ \E n \in Visited : n # collection_id /\ par[n] # collection_id

\* two requests are for pages of the same listing
SameListing(e, f) == e.url.kind = f.url.kind /\ e.url.coll = f.url.coll

\* C14: requests are strictly sequential. The log holds each request with
\* its response, in the order the blocking calls were made; a response that
\* names a next page is followed by the request for that page and by no
\* other, the pages of one listing are requested in their order, and the
\* requests of one collection are never interleaved with those of another.
C14_SequentialRequests ==
    /\ \A i \in 1 .. Len(log) - 1 :
         (log[i].status = "ok" /\ ServiceNext(log[i].links) # NoUrl)
            => log[i + 1].url = ServiceNext(log[i].links)
    /\ \A k \in 1 .. Len(log) : \A i \in 1 .. k - 1 :
         SameListing(log[i], log[k]) =>
            /\ log[i].url.start < log[k].url.start
            /\ log[i].status = "ok"
            /\ SameListing(log[i], log[k - 1])

\* a complete fetch in which a child listing and an items listing both came
\* in two pages
C14_Witness ==
    /\ fpc = "done"
    /\ \E i, k \in 1 .. Len(log) :
         /\ log[i].url.kind = "collections" /\ log[i].url.start > 0
         /\ log[k].url.kind = "items" /\ log[k].url.start > 0
         /\ k < Len(log)

\* ------------------------------------------------------------------------
\* Claims about the access-token response (SpecOAuth)
\* ------------------------------------------------------------------------
\* the key of the credential that holds a key of the response
CredentialKey(f) ==
    CASE f = "userID" -> "user_id"
      [] f = "oauth_token" -> "api_key"
      [] f = "oauth_token_secret" -> "api_secret"
      [] f = "username" -> "user_name"

\* C15: whatever keys the access-token response lacks, the call returns a
\* credential, in which every absent key has an empty value; the absence of
\* a key does not make the call fail.
C15_AbsentFieldsDefault ==
    tokens.received =>
        /\ opc = "returned"
        /\ \A f \in AccessFields :
             tokens.fields[f] = Absent
                => credential[CredentialKey(f)] \in {PyNone, ""}

\* ------------------------------------------------------------------------
\* Claims about failed requests (Spec)
\* ------------------------------------------------------------------------
\* C16: no request is retried. A request that fails is the last request of
\* its run: the fetch is left with the error at once and returns no text,
\* and no URL is ever requested twice in a run.
C16_NoRetry ==
    /\ \A i \in 1 .. Len(log) :
         log[i].status = "error" =>
            /\ i = Len(log)
            /\ fpc = "raised" \/ Did("fetch failed")
            /\ bib = NoBib
    /\ \A i, j \in 1 .. Len(log) : i # j => log[i].url # log[j].url

\* a run is over whose request failed after two others had succeeded
C16_Witness ==
    /\ mpc = "exit"
    /\ Len(log) >= 3
    /\ log[Len(log)].status = "error"

\* ------------------------------------------------------------------------
\* Claims about the order of the repository operations (Spec)
\* ------------------------------------------------------------------------
CloneOrPull == {"clone", "pull", "clone failed", "pull failed"}
RepoOps == CloneOrPull \cup {"write", "add", "commit", "commit failed", "push",
                             "push failed"}

\* what the step added to ops
NewOps == SubSeq(ops', Len(ops) + 1, Len(ops'))

\* the step is a call of clone_or_update_repo: it pulls when the configured
\* path holds a working copy, and clones otherwise, into the configured
\* directory or, with none configured, into a temporary directory made for
\* this run
CloneOrPullChoice ==
    (mpc = "start" /\ mpc' # "start") =>
        IF local_dir /\ dirs[LocalPath].git
        THEN NewOps \in {<<"pull">>, <<"pull failed">>}
        ELSE IF local_dir
        THEN NewOps \in {<<"clone">>, <<"clone failed">>}
        ELSE /\ NewOps \in {<<"mkdtemp", "clone">>, <<"mkdtemp", "clone failed">>}
             /\ ~dirs[run].exists
             /\ NewOps[2] = "clone" =>
                   path' = run /\ is_temp' /\ dirs'[run].git

\* one clone or pull a run, before everything else the run does to the
\* repository; nothing after a push or a no-op
OpsInOrder ==
    /\ Cardinality({i \in 1 .. Len(ops) : ops[i] \in CloneOrPull}) =
          (IF mpc = "start" THEN 0 ELSE 1)
    /\ \A i \in 1 .. Len(ops) :
         ops[i] \in RepoOps \ CloneOrPull =>
            \E j \in 1 .. i - 1 : ops[j] \in {"clone", "pull"}
    /\ \A i, j \in 1 .. Len(ops) :
         (i < j /\ ops[i] \in {"push", "noop"}) => ops[j] \notin RepoOps

\* C17: a run does exactly one of clone and pull: pull when the configured
\* path has a working copy, clone into a fresh temporary directory when
\* there is none and no directory is configured; the write of
\* references.bib and the push come after a successful clone or pull of the
\* same run, and no repository operation follows a push or a no-op.
C17_CloneOrPullThenSync == []OpsInOrder /\ [][CloneOrPullChoice]_vars

\* a run that pulled has pushed, after a run that cloned
C17_Witness ==
    /\ run = 2 /\ mpc = "exit"
    /\ Did("pull") /\ Did("push")

\* ------------------------------------------------------------------------
\* Claims about the shutdown of the listener (FairSpecOAuth)
\* ------------------------------------------------------------------------
\* server.shutdown() is called at most once, not before a callback has
\* brought a verifier, and it has been called when the access token is asked
\* for
ShutdownAfterCapture ==
    /\ shutdowns <= 1
    /\ shutdowns = 1 => (Captured # <<>> /\ server.has_verifier)
    /\ (opc \in {"exchange", "returned"} \/ exchange.issued) => shutdowns = 1

\* C18: in a handshake the listener is shut down exactly once: never before
\* a verifier has been captured from a callback, once when one has been
\* captured, and never again.
C18_ShutdownOnceAfterCapture ==
    /\ []ShutdownAfterCapture
    /\ (Captured # <<>>) ~> (shutdowns = 1)

\* the handshake has returned after two callbacks, the first without a
\* verifier, and the listener was shut down once
C18_Witness ==
    /\ opc = "returned"
    /\ shutdowns = 1
    /\ Len(delivered) = 2 /\ ~CarriesVerifier(delivered[1])

\* ------------------------------------------------------------------------
\* Claims about the termination of the walker (FairSpecWalk)
\* ------------------------------------------------------------------------
\* a collection reachable from the root is reported as its own descendant
CycleReachable ==
    \E n \in {collection_id} \cup StrictDescendants(par, collection_id) :
        n \in StrictDescendants(par, n)

\* the outermost call of the walker has returned or raised
WalkEnded == fpc \in {"items", "raised"}

\* C19 as stated: the walker ends for every hierarchy without a cycle, and on
\* a hierarchy with a cycle reachable from the root it goes on issuing
\* listing requests for ever (unless one of them fails).
C19_LoopsForeverOnCycle ==
    /\ <>(WalkEnded \/ CycleReachable)
    /\ [](CycleReachable => (~WalkEnded \/ exc = "RequestException"))

\* C19, amended: the walker ends for every hierarchy. Without a cycle it
\* returns (or a request fails); with a cycle reachable from the root it
\* never returns a result, and its ever deeper recursion ends in
\* RecursionError unless a request fails first.
C19_WalkerEnds ==
    /\ <>WalkEnded
    /\ [](CycleReachable => fpc # "items")
    /\ [](exc = "RecursionError" => CycleReachable)

\* the recursion limit was reached after a listing request at every depth
C19_Witness ==
    /\ exc = "RecursionError"
    /\ fpc = "raised"
    /\ Len(log) >= RecursionLimit

\* ------------------------------------------------------------------------
\* Claims about empty pages (SpecFetch)
\* ------------------------------------------------------------------------
\* the step receives a successful items response whose body is empty
EmptyPageReceived ==
    /\ Len(log') = Len(log) + 1
    /\ log'[Len(log')].url.kind = "items"
    /\ log'[Len(log')].status = "ok"
    /\ text' = EmptyText

\* what the step does with it: no text and no entries are added, no error
\* is raised, the page is counted, and the fetch goes on with the next link
\* of the response or, without one, with the next collection (the header
\* after the last)
EmptyPagePassedOver ==
    LET nxt == ServiceNext(log'[Len(log')].links) IN
    /\ bib_parts' = bib_parts
    /\ total_entries' = total_entries
    /\ page_count' = page_count + 1
    /\ exc' = "none" /\ fpc' # "raised"
    /\ IF nxt # NoUrl
       THEN next_url' = nxt /\ ci' = ci /\ fpc' = "items"
       ELSE /\ ci' = ci + 1
            /\ IF ci < Len(coll_ids)
               THEN next_url' = ItemsUrl(coll_ids[ci + 1]) /\ fpc' = "items"
               ELSE fpc' = "header"

\* C20: a successful items response with an empty body is not an error: it
\* adds no text and no entries, it is counted as a fetched page, and the
\* pagination goes on with its next link or else with the next collection.
C20_EmptyPageIsNoError == [][EmptyPageReceived => EmptyPagePassedOver]_vars

\* a fetch of two collections or more is complete in which every page was
\* empty, one of them a second page
C20_Witness ==
    /\ fpc = "done"
    /\ Len(coll_ids) >= 2
    /\ page_count >= 3
    /\ bib_parts = <<>> /\ bib.entries = 0 /\ bib.body = <<>>

\* ------------------------------------------------------------------------
\* Claims about the URL of the remote (SpecRemote)
\* ------------------------------------------------------------------------
\* <scheme>://git:<token>@<host><path> for the configured URL and the
\* present token, whatever user-info the configured URL has
AuthenticatedUrl ==
    [scheme |-> git_url.scheme,
     netloc |-> <<"git", ":", auth_token, "@", git_url.netloc[Len(git_url.netloc)]>>,
     path |-> git_url.path]

\* C21: every clone, pull and push of a run goes to the authenticated URL
\* built from the configured repository URL and the present token; none
\* goes to a remote URL stored earlier.
C21_AuthenticatedRemote ==
    \A i \in 1 .. Len(urls) : urls[i].url = AuthenticatedUrl

\* ------------------------------------------------------------------------
\* Claims about what a failed fetch leaves behind (Spec)
\* ------------------------------------------------------------------------
\* fetch_zotero_bib has returned a text, every request of the run was
\* answered, and every listing requested, of collections and of items, was
\* followed to its last page; every collection of the target had its items
\* requested
FetchedAll ==
    /\ bib.exists
    /\ \A i \in 1 .. Len(log) :
         /\ log[i].status = "ok"
         /\ \E k \in i .. Len(log) :
              /\ SameListing(log[i], log[k])
              /\ ServiceNext(log[k].links) = NoUrl
    /\ Visited = FetchSet

\* the step removes the temporary working copy and nothing else
RemovesTemp ==
    /\ is_temp /\ path = run
    /\ dirs' = [dirs EXCEPT ![path] = AbsentDir]
    /\ remote' = remote

\* once the run has its working copy, a step changes a file, an index, a
\* history or the remote only when the whole bibliography has been fetched,
\* except that a temporary working copy is removed at the end
WriteOnlyAfterFetch ==
    (mpc # "start" /\ (dirs' # dirs \/ remote' # remote))
        => (FetchedAll \/ RemovesTemp)

\* C22: references.bib is overwritten and staged only after every page of
\* every collection has been fetched; when the walker or a page request
\* fails, nothing is written, staged, committed or pushed, and the file, the
\* index, the history and the remote stay as the clone or pull left them.
C22_NoPartialBibliography ==
    /\ [][WriteOnlyAfterFetch]_vars
    /\ [](Did("fetch failed") =>
            /\ ~Did("write") /\ ~Did("add") /\ ~Did("commit") /\ ~Did("push")
            /\ ~bib.exists)

\* a run over a pulled working copy is over whose fetch failed at its third
\* request or later; the working copy is still there
C22_Witness ==
    /\ mpc = "exit"
    /\ Did("pull") /\ Did("fetch failed")
    /\ Len(log) >= 3
    /\ dirs[LocalPath].git

\* ------------------------------------------------------------------------
\* Claims about the directories a run deletes (Spec)
\* ------------------------------------------------------------------------
\* the step deletes directory p
Deleted(p) == dirs[p].exists /\ ~dirs'[p].exists

\* a directory a step deletes is the temporary directory this run made; the
\* configured local_dir and its working copy outlive every step
OnlyOwnTempDeleted ==
    /\ \A p \in Paths :
         Deleted(p) =>
            /\ ~local_dir /\ p # LocalPath
            /\ p = run /\ Did("mkdtemp")
    /\ dirs[LocalPath].git => dirs'[LocalPath].git

\* C23: a run deletes a working directory only if the same run created it
\* as a temporary directory; a working copy at a configured local_dir,
\* pulled or cloned by this run, is never deleted, on success or on failure.
C23_OnlyTempDirDeleted == [][OnlyOwnTempDeleted]_vars

\* a run that cloned into the configured local_dir has failed at the push
\* and is over; the working copy is still there
C23_Witness ==
    /\ mpc = "exit"
    /\ local_dir /\ Did("clone") /\ Did("push failed")
    /\ exit_code = 1
    /\ dirs[LocalPath].git

\* ------------------------------------------------------------------------
\* Claims about callbacks during the shutdown (SpecOAuth)
\* ------------------------------------------------------------------------
\* C24: the verifier passed to the access-token exchange is the one the
\* listener held when the wait loop of the calling thread saw that a
\* verifier was captured; a callback handled after that, before
\* server.shutdown() has completed, does not replace it.
C24_VerifierNotReplaced ==
    exchange.issued => exchange.verifier = observed

====
